---- MODULE Spec2Model ----
(***************************************************************************)
(* simple-ts-di: hierarchical injectors, the ambient injection context,    *)
(* the @Component scope wrapper and dynamicComponent.                      *)
(*                                                                         *)
(* The program is synchronous and single threaded.  Calls that run user    *)
(* code (class constructors, factories, component constructors) are        *)
(* modelled with an explicit call stack; user code is arbitrary, so a body *)
(* on top of the stack may make any call the library offers, return, or    *)
(* throw.  The library contains no try/finally, so a throw unwinds every   *)
(* frame at once without running any further library statement.            *)
(***************************************************************************)
EXTENDS Integers, Sequences, FiniteSets, TLC

\* ---------------------------------------------------------------- bounds
MaxInj   == 2      \* injectors created besides ROOT_INJECTOR (ids 1..MaxInj)
MaxInst  == 2      \* objects built by user constructors / factories
MaxDepth == 4      \* call-stack frames
MaxCalls == 4      \* calls made by user code (top-level code and bodies)

\* ---------------------------------------------------------------- tokens
ROOT == 0          \* ROOT_INJECTOR
Null == -1         \* null (no injector)

\* token identities; A is a class, A2 an InjectionToken labelled "A"
Tokens == {"Injector", "COMPONENT", "A", "A2", "B"}
UserTokens == {"A", "A2", "B"}

\* token.name: the string the registry is keyed by
Name(tok) ==
  CASE tok = "Injector"  -> "Injector"
    [] tok = "COMPONENT" -> "Component"
    [] tok = "A"         -> "A"
    [] tok = "A2"        -> "A"
    [] tok = "B"         -> "B"
    [] tok = "S1"        -> "S1"
    [] tok = "S2"        -> "S2"

\* scope-bound (@Component) types
CompTypes == {"S1", "S2"}
Names == {"Injector", "Component", "A", "B", "S1", "S2"}

\* ---------------------------------------------------------------- values
Val(t, id) == [t |-> t, id |-> id]
NoVal      == Val("none", 0)
Undefined  == Val("undef", 0)
InjRef(i)  == Val("inj", i)
Inst(n)    == Val("inst", n)
Const(tok) == Val("const", IF tok = "A2" THEN 1 ELSE IF tok = "B" THEN 2 ELSE 3)
\* the name an error message carries
NameId(name) ==
  CASE name = "Injector"  -> 1
    [] name = "Component" -> 2
    [] name = "A"         -> 3
    [] name = "B"         -> 4
    [] name = "S1"        -> 5
    [] name = "S2"        -> 6
\* Error(`Dependency ${token.name} is not registered`)
TokenNotRegistered(name) == Val("TokenNotRegistered", NameId(name))
InjectionOutsideContext == Val("InjectionOutsideContext", 0)
UserError               == Val("UserError", 0)
IsError(v) == v.t \in {"TokenNotRegistered", "InjectionOutsideContext", "UserError"}

\* ---------------------------------------------------------------- providers
NoDeps == 0
\* deps: 0 = no deps, 1 = [{provide: A2, useValue}] (a factory-local value)
Recipe(kind, tok, val, target, deps) ==
  [kind |-> kind, provide |-> tok, val |-> val, target |-> target, deps |-> deps]
ValueProvider(tok, v)       == Recipe("value", tok, v, "-", NoDeps)
ClassProvider(tok, cls)     == Recipe("class", tok, NoVal, cls, NoDeps)
FactoryProvider(tok, deps)  == Recipe("factory", tok, NoVal, "-", deps)
ExistingProvider(tok, to)   == Recipe("existing", tok, NoVal, to, NoDeps)
NoRecipe == Recipe("none", "-", NoVal, "-", NoDeps)

createClassProviderFromConstructor(target) == ClassProvider(target, target)

DepsList(d) == IF d = 1 THEN << ValueProvider("A2", Const("A2")) >> ELSE << >>

\* ProviderData
\* (tok is history: the token whose recipe the entry came from)
Uninitialized(p)    == [st |-> "U", provider |-> p, value |-> NoVal, tok |-> p.provide]
Initialized(v, tok) == [st |-> "R", provider |-> NoRecipe, value |-> v, tok |-> tok]
NoEntry             == [st |-> "-", provider |-> NoRecipe, value |-> NoVal, tok |-> "-"]
isProviderInitialized(e) == e.st = "R"

\* recipes among which two aliases point at each other
UserRecipesCyclic ==
  { createClassProviderFromConstructor("A"),
    ExistingProvider("A2", "B"),
    FactoryProvider("B", 1),
    ExistingProvider("B", "A") }

\* recipes top-level code and component declarations may register
UserRecipes ==
  { createClassProviderFromConstructor("A"),
    ValueProvider("A2", Const("A2")),
    FactoryProvider("B", 1),
    ExistingProvider("B", "A") }

\* providers declared on the scope-bound types
CompProviders(T) ==
  IF T = "S1" THEN << createClassProviderFromConstructor("A") >>
              ELSE << ExistingProvider("B", "A") >>

\* ---------------------------------------------------------------- state
VARIABLES
  providers,   \* Injector.providers : injector -> (name -> ProviderData)
  parent,      \* Injector.parent
  nInj,        \* injectors constructed so far (ROOT excluded)
  cur,         \* currentComponentInjector
  stack,       \* call stack, innermost frame last
  ret,         \* value or error the last completed call produced
  nInst,       \* objects constructed so far
  nCalls,      \* calls user code has made so far
  served,      \* history: served[i][t] = the values injector i has answered
               \* get(t) with since it first built one from a class or factory
               \* recipe for t, and since the last provide of t on i
  last         \* history: the call user code made in the step just taken

vars == << providers, parent, nInj, cur, stack, ret, nInst, nCalls, served, last >>

Injectors == 0..nInj

\* ---------------------------------------------------------------- context.ts
\* getCurrentInjector answering ROOT_INJECTOR whatever the pointer holds
getCurrentInjectorRoot == ROOT
getCurrentInjector == IF cur = Null THEN ROOT ELSE cur
\* setCurrentInjector storing the reference it is given, ROOT_INJECTOR included
setCurrentInjectorStoring(injector) == injector
\* the value setCurrentInjector(injector) stores
setCurrentInjector(injector) == IF injector = ROOT THEN Null ELSE injector

\* ---------------------------------------------------------------- Injector
\* provide(): this.providers.set(provider.provide.name, { provider })
provide(reg, p) == [reg EXCEPT ![Name(p.provide)] = Uninitialized(p)]

RECURSIVE provideAll(_, _)
provideAll(reg, ps) ==
  IF ps = << >> THEN reg ELSE provideAll(provide(reg, Head(ps)), Tail(ps))

EmptyRegistry == [n \in Names |-> NoEntry]

\* the constructor with its own Injector entry provided before the list
NewRegistrySelfFirst(self, ps) ==
  provideAll(provide(EmptyRegistry, ValueProvider("Injector", InjRef(self))), ps)

\* constructor(parent, providers)
NewRegistry(self, ps) ==
  provide(provideAll(EmptyRegistry, ps), ValueProvider("Injector", InjRef(self)))

\* The lookup part of get(): the injector whose registry answers, or Null.
\* parent.get(token, { optional: options.optional, self: options.host })
RECURSIVE Find(_, _, _, _, _)
\* Find with the skipSelf test left out
FindIgnoringSkipSelf(i, name, skipSelf, self, host) ==
  IF providers[i][name] # NoEntry THEN i
  ELSE IF parent[i] # Null /\ ~self THEN Find(parent[i], name, FALSE, host, FALSE)
  ELSE Null

Find(i, name, skipSelf, self, host) ==
  IF ~skipSelf /\ providers[i][name] # NoEntry THEN i
  ELSE IF parent[i] # Null /\ ~self THEN Find(parent[i], name, FALSE, host, FALSE)
  ELSE Null

\* ---------------------------------------------------------------- frames
\* One activation record.  k/pc: what runs and where it stands; inj: the
\* injector it runs on (for a waiting get: the injector that holds the entry);
\* tok: the token asked for, or the type under construction; prov: the provider
\* being initialized; par: the injector to restore; entry: the ambient pointer
\* when the activation began; then the options of a get.
Frame(k, pc, inj, tok, par, entry, o) ==
  [k |-> k, pc |-> pc, inj |-> inj, tok |-> tok, prov |-> NoRecipe, par |-> par,
   entry |-> entry,
   optional |-> o.optional, self |-> o.self, skipSelf |-> o.skipSelf, host |-> o.host]

Opts(o, s, k, h) == [optional |-> o, self |-> s, skipSelf |-> k, host |-> h]
NoOpts == Opts(FALSE, FALSE, FALSE, FALSE)
\* InjectionOptions: self and skipSelf exclude each other
OptionSet == { o \in [optional : BOOLEAN, self : BOOLEAN, skipSelf : BOOLEAN, host : BOOLEAN] :
                 ~(o.self /\ o.skipSelf) }

\* history records of calls
Call(op, i, tok, o) == [op |-> op, inj |-> i, tok |-> tok, o |-> o]
NoCall == Call("-", Null, "-", NoOpts)

GetFrame(i, tok, o) == Frame("get", "start", i, tok, Null, cur, o)
BodyKinds == {"class", "factory", "comp", "plain"}

Depth == Len(stack)
Top == stack[Depth]
Pop == SubSeq(stack, 1, Depth - 1)
ReplaceTop(f) == [stack EXCEPT ![Depth] = f]

\* user code is running (top-level code, or a constructor / factory body) and
\* has taken the result of the call it made last
InUserCode ==
  /\ ret = NoVal
  /\ nCalls < MaxCalls
  /\ IF Depth = 0 THEN TRUE ELSE Top.k \in BodyKinds /\ Top.pc = "run"
CanCall == InUserCode /\ Depth < MaxDepth

Init ==
  /\ providers = [i \in 0..MaxInj |-> IF i = ROOT THEN NewRegistry(ROOT, << >>) ELSE EmptyRegistry]
  /\ parent = [i \in 0..MaxInj |-> Null]
  /\ nInj = 0
  /\ cur = Null
  /\ stack = << >>
  /\ ret = NoVal
  /\ nInst = 0
  /\ nCalls = 0
  /\ served = [i \in 0..MaxInj |-> [t \in UserTokens |-> {}]]
  /\ last = NoCall

\* history: injector i answered get(tok) with v; recorded from the first value
\* built from a class / factory recipe registered for tok itself
Serve(i, tok, v, first) ==
  IF tok \in UserTokens /\ (first \/ served[i][tok] # {})
    THEN served' = [served EXCEPT ![i][tok] = @ \cup {v}]
    ELSE UNCHANGED served

\* an exception propagates to top-level code; nothing catches or cleans up
Throw(e) ==
  /\ stack' = << >>
  /\ ret' = e

\* ---------------------------------------------------------------- calls
\* top-level code: injector.provide(recipe)
Provide(i, p) ==
  /\ InUserCode /\ Depth = 0
  /\ i \in Injectors
  /\ providers' = [providers EXCEPT ![i] = provide(@, p)]
  /\ served' = [served EXCEPT ![i][p.provide] = {}]
  /\ nCalls' = nCalls + 1
  /\ last' = Call("provide", i, p.provide, NoOpts)
  /\ ret' = NoVal
  /\ UNCHANGED << parent, nInj, cur, stack, nInst >>

\* top-level code: new Injector(parent, providers)
NewInjector(p, ps) ==
  /\ InUserCode /\ Depth = 0
  /\ nInj < MaxInj
  /\ p \in Injectors \cup {Null}
  /\ LET id == nInj + 1 IN
       /\ providers' = [providers EXCEPT ![id] = NewRegistry(id, ps)]
       /\ parent' = [parent EXCEPT ![id] = p]
       /\ nInj' = id
       /\ ret' = InjRef(id)
  /\ nCalls' = nCalls + 1
  /\ UNCHANGED << cur, stack, nInst, served >>
  /\ last' = Call("new Injector", p, "-", NoOpts)

\* ---------------------------------------------------------------- Injector.get
\* get(token, options) called with call stack st (the caller's frames): the
\* lookup, the delegation to the parent chain, and initializeProvider's dispatch
\* on the provider kind.  A class constructor, a factory function and the
\* this.get of useExisting continue in frames of their own.
GetCall(st, f) ==
  LET name  == Name(f.tok)
      owner == Find(f.inj, name, f.skipSelf, f.self, f.host)
  IN
  IF owner = Null THEN
     /\ IF f.optional THEN stack' = st /\ ret' = Undefined
                      ELSE Throw(TokenNotRegistered(name))
     /\ UNCHANGED << providers, parent, nInj, cur, nInst, served >>
  ELSE LET e == providers[owner][name]
           p == e.provider
           \* the options this activation was called with: the caller's on
           \* f.inj, { optional, self: host } on its parent, { optional } above
           eff   == Opts(f.optional,
                         IF owner = f.inj THEN f.self
                         ELSE IF owner = parent[f.inj] THEN f.host ELSE FALSE,
                         FALSE,
                         IF owner = f.inj THEN f.host ELSE FALSE)
           \* (kept for useExisting only: no other continuation reads them)
           await == [Frame("get", "await", owner, f.tok, Null, f.entry,
                           IF p.kind = "existing" THEN eff ELSE NoOpts)
                       EXCEPT !.prov = p]
       IN
       IF isProviderInitialized(e) THEN
          /\ stack' = st
          /\ ret' = e.value
          /\ Serve(owner, f.tok, e.value, FALSE)
          /\ UNCHANGED << providers, parent, nInj, cur, nInst >>
       ELSE IF p.kind = "value" THEN
          \* resolveValueProvider
          /\ providers' = [providers EXCEPT ![owner][name] = Initialized(p.val, p.provide)]
          /\ stack' = st
          /\ ret' = p.val
          /\ Serve(owner, f.tok, p.val, FALSE)
          /\ UNCHANGED << parent, nInj, cur, nInst >>
       ELSE IF p.kind = "class" THEN
          \* resolveClassProvider: new provider.useClass()
          /\ Len(st) + 2 <= MaxDepth
          /\ stack' = Append(Append(st, await),
                             Frame("class", "run", owner, p.target, Null, cur, NoOpts))
          /\ ret' = NoVal
          /\ UNCHANGED << providers, parent, nInj, cur, nInst, served >>
       ELSE IF p.kind = "factory" THEN
          \* resolveFactoryProvider
          /\ Len(st) + 2 <= MaxDepth
          /\ nInj < MaxInj
          /\ LET parentInjector == getCurrentInjector
                 injector == nInj + 1
             IN /\ providers' = [providers EXCEPT
                                   ![injector] = NewRegistry(injector, DepsList(p.deps))]
                /\ parent' = [parent EXCEPT ![injector] = parentInjector]
                /\ nInj' = injector
                /\ cur' = setCurrentInjector(injector)
                /\ stack' = Append(Append(st, [await EXCEPT !.par = parentInjector]),
                                   Frame("factory", "run", injector, f.tok,
                                         parentInjector, cur, NoOpts))
                /\ ret' = NoVal
          /\ UNCHANGED << nInst, served >>
       ELSE
          \* useExisting: this.get(provider.useExisting)
          /\ p.kind = "existing"
          /\ Len(st) + 2 <= MaxDepth
          /\ stack' = Append(Append(st, await), GetFrame(owner, p.target, NoOpts))
          /\ ret' = NoVal
          /\ UNCHANGED << providers, parent, nInj, cur, nInst, served >>

\* top-level code: injector.get(token, options)
Get(i, tok, o) ==
  /\ InUserCode /\ Depth = 0
  /\ i \in Injectors
  /\ GetCall(stack, GetFrame(i, tok, o))
  /\ nCalls' = nCalls + 1
  /\ last' = Call("get", i, tok, o)

\* inject that leaves an entry behind on the ambient injector when the token
\* is not found
InjectRecordingMiss(tok, o) ==
  /\ InUserCode
  /\ IF Find(getCurrentInjector, Name(tok), o.skipSelf, o.self, o.host) = Null
       THEN /\ providers' = [providers EXCEPT ![getCurrentInjector][Name(tok)] =
                                Initialized(Undefined, tok)]
            /\ IF o.optional THEN stack' = stack /\ ret' = Undefined
                             ELSE Throw(TokenNotRegistered(Name(tok)))
            /\ UNCHANGED << parent, nInj, cur, nInst, served >>
       ELSE GetCall(stack, GetFrame(getCurrentInjector, tok, o))
  /\ nCalls' = nCalls + 1
  /\ last' = Call("inject", getCurrentInjector, tok, o)

\* inject(token, options): getCurrentInjector().get(token, options)
Inject(tok, o) ==
  /\ InUserCode
  /\ GetCall(stack, GetFrame(getCurrentInjector, tok, o))
  /\ nCalls' = nCalls + 1
  /\ last' = Call("inject", getCurrentInjector, tok, o)

\* GetStart whose lookup begins at the ambient injector, the one inject asked
GetStartAtRequester ==
  /\ Depth > 0
  /\ Top.k = "get" /\ Top.pc = "start"
  /\ GetCall(Pop, [Top EXCEPT !.inj = getCurrentInjector])
  /\ last' = NoCall
  /\ UNCHANGED nCalls

\* a get() the library itself issued (useExisting, dynamicComponent) starts
GetStart ==
  /\ Depth > 0
  /\ Top.k = "get" /\ Top.pc = "start"
  /\ GetCall(Pop, Top)
  /\ last' = NoCall
  /\ UNCHANGED nCalls

\* the frame is popped and v handed to the caller
ReturnValue(v) ==
  /\ stack' = Pop
  /\ ret' = v

\* GetFinish that also caches the value on the injector that was ambient when
\* the get began
GetFinishCachingAtCaller ==
  /\ Depth > 0
  /\ Top.k = "get" /\ Top.pc = "await"
  /\ ret # NoVal
  /\ providers' = [providers EXCEPT
                     ![Top.inj][Name(Top.tok)] = Initialized(ret, Top.prov.provide),
                     ![IF Top.entry = Null THEN ROOT ELSE Top.entry][Name(Top.tok)] =
                        Initialized(ret, Top.prov.provide)]
  /\ cur' = IF Top.par # Null THEN setCurrentInjector(Top.par) ELSE cur
  /\ ReturnValue(ret)
  /\ Serve(Top.inj, Top.tok, ret,
           Top.prov.kind \in {"class", "factory"} /\ Top.prov.provide = Top.tok)
  /\ last' = NoCall
  /\ UNCHANGED << parent, nInj, nInst, nCalls >>

\* GetFinish without this.providers.set(token.name, { value })
GetFinishUncached ==
  /\ Depth > 0
  /\ Top.k = "get" /\ Top.pc = "await"
  /\ ret # NoVal
  /\ cur' = IF Top.par # Null THEN setCurrentInjector(Top.par) ELSE cur
  /\ ReturnValue(ret)
  /\ Serve(Top.inj, Top.tok, ret,
           Top.prov.kind \in {"class", "factory"} /\ Top.prov.provide = Top.tok)
  /\ last' = NoCall
  /\ UNCHANGED << providers, parent, nInj, nInst, nCalls >>

\* get(): initializeProvider returned; this.providers.set(token.name, { value })
GetFinish ==
  /\ Depth > 0
  /\ Top.k = "get" /\ Top.pc = "await"
  /\ ret # NoVal
  /\ providers' = [providers EXCEPT ![Top.inj][Name(Top.tok)] = Initialized(ret, Top.prov.provide)]
  /\ cur' = IF Top.par # Null THEN setCurrentInjector(Top.par) ELSE cur
  /\ ReturnValue(ret)
  /\ Serve(Top.inj, Top.tok, ret,
           Top.prov.kind \in {"class", "factory"} /\ Top.prov.provide = Top.tok)
  /\ last' = NoCall
  /\ UNCHANGED << parent, nInj, nInst, nCalls >>

\* ---------------------------------------------------------------- user bodies
\* a class constructor or factory function returns the object it built
BodyReturn ==
  /\ Depth > 0 /\ ret = NoVal
  /\ Top.k \in {"class", "factory", "plain"} /\ Top.pc = "run"
  /\ nInst < MaxInst
  /\ nInst' = nInst + 1
  /\ ReturnValue(Inst(nInst + 1))
  /\ last' = NoCall
  /\ UNCHANGED << providers, parent, nInj, cur, nCalls, served >>

\* BodyThrow that records the error as the resolved entry of the recipe whose
\* constructor or factory threw
BodyThrowCaching ==
  /\ Depth > 1 /\ ret = NoVal
  /\ Top.k \in {"class", "factory"} /\ Top.pc = "run"
  /\ providers' = [providers EXCEPT ![stack[Depth - 1].inj][Name(stack[Depth - 1].tok)] =
                     Initialized(UserError, stack[Depth - 1].prov.provide)]
  /\ Throw(UserError)
  /\ last' = NoCall
  /\ UNCHANGED << parent, nInj, cur, nInst, nCalls, served >>

\* a constructor or factory throws
BodyThrow ==
  /\ Depth > 0 /\ ret = NoVal
  /\ Top.k \in BodyKinds /\ Top.pc = "run"
  /\ Throw(UserError)
  /\ last' = NoCall
  /\ UNCHANGED << providers, parent, nInj, cur, nInst, nCalls, served >>

\* ---------------------------------------------------------------- @Component
\* CompEnter with the new injector always placed under ROOT_INJECTOR
CompEnterUnderRoot(T, st, c) ==
  LET injector == nInj + 1
  IN /\ nInj < MaxInj
     /\ providers' = [providers EXCEPT ![injector] = NewRegistry(injector, CompProviders(T))]
     /\ parent' = [parent EXCEPT ![injector] = ROOT]
     /\ nInj' = injector
     /\ cur' = setCurrentInjector(injector)
     /\ stack' = Append(st, Frame("comp", "run", injector, T, ROOT, c, NoOpts))
     /\ ret' = NoVal

\* constructor prologue of the class returned by Component(providers)(target),
\* entered with call stack st and ambient pointer c
CompEnter(T, st, c) ==
  LET parentInj == IF c = Null THEN ROOT ELSE c
      injector  == nInj + 1
  IN /\ nInj < MaxInj
     /\ providers' = [providers EXCEPT ![injector] = NewRegistry(injector, CompProviders(T))]
     /\ parent' = [parent EXCEPT ![injector] = parentInj]
     /\ nInj' = injector
     /\ cur' = setCurrentInjector(injector)
     /\ stack' = Append(st, Frame("comp", "run", injector, T, parentInj, c, NoOpts))
     /\ ret' = NoVal

\* new T() for a scope-bound type T
New(T) ==
  /\ CanCall
  /\ CompEnter(T, stack, cur)
  /\ nCalls' = nCalls + 1
  /\ last' = Call("new", getCurrentInjector, T, NoOpts)
  /\ UNCHANGED << nInst, served >>

\* CompReturn without the two injector.provide calls
CompReturnUnregistered ==
  /\ Depth > 0 /\ ret = NoVal
  /\ Top.k = "comp" /\ Top.pc = "run"
  /\ nInst < MaxInst
  /\ cur' = setCurrentInjector(Top.par)
  /\ nInst' = nInst + 1
  /\ ReturnValue(Inst(nInst + 1))
  /\ last' = NoCall
  /\ UNCHANGED << providers, parent, nInj, nCalls, served >>

\* constructor epilogue: super(...args) returned
CompReturn ==
  /\ Depth > 0 /\ ret = NoVal
  /\ Top.k = "comp" /\ Top.pc = "run"
  /\ nInst < MaxInst
  /\ LET this == Inst(nInst + 1)
         injector == Top.inj
     IN /\ providers' = [providers EXCEPT ![injector] =
                           provide(provide(@, ValueProvider(Top.tok, this)),
                                   ValueProvider("COMPONENT", this))]
        /\ cur' = setCurrentInjector(Top.par)
        /\ nInst' = nInst + 1
        /\ ReturnValue(this)
  /\ last' = NoCall
  /\ UNCHANGED << parent, nInj, nCalls, served >>

\* ---------------------------------------------------------------- dynamicComponent
DynTypes == {"S1", "A"}

\* setCurrentInjector(injector); return new component(params)
DynConstruct(T, injector, st) ==
  IF T \in CompTypes
    THEN /\ CompEnter(T, st, setCurrentInjector(injector))
         /\ UNCHANGED << nInst, served >>
    ELSE /\ cur' = setCurrentInjector(injector)
         /\ stack' = Append(st, Frame("plain", "run", injector, T, Null,
                                       setCurrentInjector(injector), NoOpts))
         /\ ret' = NoVal
         /\ UNCHANGED << providers, parent, nInj, nInst, served >>

\* dynamicComponent(component, params, injector)
DynamicWith(T, injector) ==
  /\ InUserCode
  /\ Depth + 2 <= MaxDepth
  /\ injector \in Injectors
  /\ DynConstruct(T, injector,
                  Append(stack, Frame("dyn", "await", injector, T, Null, cur, NoOpts)))
  /\ nCalls' = nCalls + 1
  /\ last' = Call("dynamicComponent", injector, T, NoOpts)

\* DynamicAmbient without assertRunInInjectionContext
DynamicAmbientUnchecked(T) ==
  /\ InUserCode
  /\ Depth + 2 <= MaxDepth
  /\ nCalls' = nCalls + 1
  /\ last' = Call("dynamicComponent", Null, T, NoOpts)
  /\ stack' = Append(Append(stack, Frame("dyn", "inject", Null, T, Null, cur, NoOpts)),
                     GetFrame(getCurrentInjector, "Injector", NoOpts))
  /\ ret' = NoVal
  /\ UNCHANGED << providers, parent, nInj, cur, nInst, served >>

\* dynamicComponent(component, params): assertRunInInjectionContext, inject(Injector)
DynamicAmbient(T) ==
  /\ InUserCode
  /\ Depth + 2 <= MaxDepth
  /\ nCalls' = nCalls + 1
  /\ last' = Call("dynamicComponent", Null, T, NoOpts)
  /\ IF cur = Null
       THEN /\ Throw(InjectionOutsideContext)
            /\ UNCHANGED << providers, parent, nInj, cur, nInst, served >>
       ELSE /\ stack' = Append(Append(stack, Frame("dyn", "inject", Null, T, Null, cur, NoOpts)),
                               GetFrame(getCurrentInjector, "Injector", NoOpts))
            /\ ret' = NoVal
            /\ UNCHANGED << providers, parent, nInj, cur, nInst, served >>

\* injector = inject(Injector) returned
DynInjected ==
  /\ Depth > 0
  /\ Top.k = "dyn" /\ Top.pc = "inject"
  /\ ret.t = "inj"
  /\ DynConstruct(Top.tok, ret.id, ReplaceTop([Top EXCEPT !.pc = "await", !.inj = ret.id]))
  /\ last' = NoCall
  /\ UNCHANGED nCalls

\* DynFinish that provides the instance on the injector it constructed against
DynFinishRegistering ==
  /\ Depth > 0
  /\ Top.k = "dyn" /\ Top.pc = "await"
  /\ ret # NoVal
  /\ providers' = [providers EXCEPT ![Top.inj] =
                     provide(provide(@, ValueProvider(Top.tok, ret)),
                             ValueProvider("COMPONENT", ret))]
  /\ ReturnValue(ret)
  /\ last' = NoCall
  /\ UNCHANGED << parent, nInj, cur, nInst, nCalls, served >>

\* return new component(params)
DynFinish ==
  /\ Depth > 0
  /\ Top.k = "dyn" /\ Top.pc = "await"
  /\ ret # NoVal
  /\ ReturnValue(ret)
  /\ last' = NoCall
  /\ UNCHANGED << providers, parent, nInj, cur, nInst, nCalls, served >>

\* user code takes the value (or catches sight of the error) its call produced
Resume ==
  /\ ret # NoVal
  /\ IF Depth = 0 THEN TRUE ELSE Top.k \in BodyKinds
  /\ ret' = NoVal
  /\ last' = NoCall
  /\ UNCHANGED << providers, parent, nInj, cur, stack, nInst, nCalls, served >>

\* ---------------------------------------------------------------- specification
InitialLists ==
  { << >>,
    << createClassProviderFromConstructor("A") >>,
    << ValueProvider("Injector", InjRef(ROOT)) >> }

Next ==
  \/ \E i \in 0..MaxInj, p \in UserRecipes : Provide(i, p)
  \/ \E p \in (0..MaxInj) \cup {Null}, ps \in InitialLists : NewInjector(p, ps)
  \/ \E tok \in Tokens, o \in OptionSet : Inject(tok, o)
  \/ \E i \in 0..MaxInj, tok \in Tokens, o \in OptionSet : Get(i, tok, o)
  \/ GetStart
  \/ GetFinish
  \/ BodyReturn
  \/ BodyThrow
  \/ \E T \in CompTypes : New(T)
  \/ CompReturn
  \/ \E T \in DynTypes, i \in 0..MaxInj : DynamicWith(T, i)
  \/ \E T \in DynTypes : DynamicAmbient(T)
  \/ DynInjected
  \/ DynFinish
  \/ Resume

Spec == Init /\ [][Next]_vars

\* ---------------------------------------------------------------- declarations
\* Registrations made while the program's modules load, and the application
\* bootstrap.  On the registry they act as ROOT_INJECTOR.provide does, which
\* Spec exercises through Provide; BootSpec runs them as the calls they are.

\* InjectableProps / the options of an InjectionToken
Props(providedIn, useFactory, deps) ==
  [providedIn |-> providedIn, useFactory |-> useFactory, deps |-> deps]
NoProps   == Props("-", FALSE, NoDeps)
RootProps == Props("root", FALSE, NoDeps)
RootFactoryProps(deps) == Props("root", TRUE, deps)
\* isFactoryProps
isFactoryProps(props) == props.useFactory

TokenProps      == {NoProps, RootFactoryProps(NoDeps), RootFactoryProps(1)}
InjectableProps == {NoProps, RootProps, RootFactoryProps(1)}
DeclaredTokens  == {"A2", "B"}

\* history records of declarations and of the bootstrap
DeclCall(op, tok, props) ==
  [op |-> op, inj |-> ROOT, tok |-> tok, o |-> NoOpts, props |-> props]
AppCall(T, ps) ==
  [op |-> "Application.init", inj |-> ROOT, tok |-> T, o |-> NoOpts, list |-> ps]

\* history: provide(p) on ROOT_INJECTOR for every p of ps
ServedAfter(ps) ==
  [served EXCEPT ![ROOT] =
     [t \in UserTokens |-> IF \E k \in DOMAIN ps : ps[k].provide = t THEN {} ELSE @[t]]]

\* new InjectionToken(name, options) that ignores its options
NewTokenUnregistered(tok, props) ==
  /\ InUserCode /\ Depth = 0
  /\ nCalls' = nCalls + 1
  /\ last' = DeclCall("new InjectionToken", tok, props)
  /\ ret' = NoVal
  /\ UNCHANGED << providers, parent, nInj, cur, stack, nInst, served >>

\* top-level code: new InjectionToken(name, options)
NewToken(tok, props) ==
  /\ InUserCode /\ Depth = 0
  /\ IF props.providedIn = "root"
       THEN LET p == FactoryProvider(tok, props.deps)
            IN /\ providers' = [providers EXCEPT ![ROOT] = provide(@, p)]
               /\ served' = ServedAfter(<< p >>)
       ELSE UNCHANGED << providers, served >>
  /\ nCalls' = nCalls + 1
  /\ last' = DeclCall("new InjectionToken", tok, props)
  /\ ret' = NoVal
  /\ UNCHANGED << parent, nInj, cur, stack, nInst >>

\* Injectable(props)(target) that provides the class whatever the props hold
InjectableAsClass(target, props) ==
  /\ InUserCode /\ Depth = 0
  /\ IF props.providedIn = "root"
       THEN LET p == createClassProviderFromConstructor(target)
            IN /\ providers' = [providers EXCEPT ![ROOT] = provide(@, p)]
               /\ served' = ServedAfter(<< p >>)
       ELSE UNCHANGED << providers, served >>
  /\ nCalls' = nCalls + 1
  /\ last' = DeclCall("Injectable", target, props)
  /\ ret' = NoVal
  /\ UNCHANGED << parent, nInj, cur, stack, nInst >>

\* top-level code: @Injectable(props) applied to the class target
Injectable(target, props) ==
  /\ InUserCode /\ Depth = 0
  /\ IF props.providedIn = "root"
       THEN LET p == IF isFactoryProps(props)
                       THEN FactoryProvider(target, props.deps)
                       ELSE createClassProviderFromConstructor(target)
            IN /\ providers' = [providers EXCEPT ![ROOT] = provide(@, p)]
               /\ served' = ServedAfter(<< p >>)
       ELSE UNCHANGED << providers, served >>
  /\ nCalls' = nCalls + 1
  /\ last' = DeclCall("Injectable", target, props)
  /\ ret' = NoVal
  /\ UNCHANGED << parent, nInj, cur, stack, nInst >>

\* provider lists passed to Application.init
AppLists ==
  { << >>,
    << createClassProviderFromConstructor("A") >>,
    << ValueProvider("A2", Const("A2")), FactoryProvider("B", 1) >>,
    << createClassProviderFromConstructor("A"), ValueProvider("A2", Const("A2")) >> }

\* top-level code: Application.init(root, providers)
AppInit(T, ps) ==
  /\ CanCall /\ Depth = 0
  /\ nInj < MaxInj
  /\ LET parentInj == getCurrentInjector
         injector  == nInj + 1
     IN /\ providers' = [providers EXCEPT
                           ![ROOT] = provideAll(@, ps),
                           ![injector] = NewRegistry(injector, CompProviders(T))]
        /\ parent' = [parent EXCEPT ![injector] = parentInj]
        /\ nInj' = injector
        /\ cur' = setCurrentInjector(injector)
        /\ stack' = Append(stack, Frame("comp", "run", injector, T, parentInj, cur, NoOpts))
        /\ ret' = NoVal
  /\ served' = ServedAfter(ps)
  /\ nCalls' = nCalls + 1
  /\ last' = AppCall(T, ps)
  /\ UNCHANGED nInst

NextBoot ==
  \/ \E tok \in DeclaredTokens, props \in TokenProps : NewToken(tok, props)
  \/ \E props \in InjectableProps : Injectable("A", props)
  \/ \E T \in CompTypes, ps \in AppLists : AppInit(T, ps)
  \/ \E tok \in Tokens, o \in OptionSet : Inject(tok, o)
  \/ GetStart
  \/ GetFinish
  \/ BodyReturn
  \/ BodyThrow
  \/ \E T \in CompTypes : New(T)
  \/ CompReturn
  \/ Resume

BootSpec == Init /\ [][NextBoot]_vars

\* ---------------------------------------------------------------- termination
\* The program is sequential: a call that has begun keeps running.  LiveSpec
\* lets user code begin a call only where the bounds leave room for everything
\* the library does on its behalf before user code runs again (an alias, then
\* a class or factory body), so that no bound stops a call half way.

\* what get(token, options) on injector i takes until it returns or hands over
\* to a constructor or factory: call-stack frames, and whether it constructs an
\* injector; hops bounds the aliases followed
RECURSIVE Needed(_, _, _, _, _, _)
Needed(i, name, skipSelf, self, host, hops) ==
  LET owner == Find(i, name, skipSelf, self, host)
  IN IF owner = Null \/ hops = 0 THEN [frames |-> 0, injector |-> FALSE]
     ELSE LET p == providers[owner][name].provider
          IN IF p.kind \in {"none", "value"} THEN [frames |-> 0, injector |-> FALSE]
             ELSE IF p.kind = "class" THEN [frames |-> 2, injector |-> FALSE]
             ELSE IF p.kind = "factory" THEN [frames |-> 2, injector |-> TRUE]
             ELSE LET t == Needed(owner, Name(p.target), FALSE, FALSE, FALSE, hops - 1)
                  IN [frames |-> IF t.frames = 0 THEN 2 ELSE 1 + t.frames,
                      injector |-> t.injector]

MaxHops == 2       \* aliases followed when sizing a call

\* the bounds leave room for get(tok, o) on injector i
CallFits(i, tok, o) ==
  LET n == Needed(i, Name(tok), o.skipSelf, o.self, o.host, MaxHops)
  IN Depth + n.frames <= MaxDepth /\ (n.injector => nInj < MaxInj)

\* the options LiveSpec calls inject with: none, or one of the four
LiveOptions ==
  { o \in OptionSet :
      Cardinality({f \in {"optional", "self", "skipSelf", "host"} : o[f]}) <= 1 }

NextLive ==
  \/ \E i \in 0..MaxInj, p \in UserRecipes : Provide(i, p)
  \/ \E p \in (0..MaxInj) \cup {Null}, ps \in InitialLists : NewInjector(p, ps)
  \/ \E tok \in Tokens, o \in LiveOptions :
        CallFits(getCurrentInjector, tok, o) /\ Inject(tok, o)
  \/ GetStart
  \/ GetFinish
  \/ BodyReturn
  \/ BodyThrow
  \/ \E T \in CompTypes : New(T)
  \/ CompReturn
  \/ Resume

\* a step the library has to take is taken, user code that holds a value takes
\* it up, and a constructor or factory in control eventually returns or throws
Fairness ==
  /\ WF_vars(GetStart)
  /\ WF_vars(GetFinish)
  /\ WF_vars(Resume)
  /\ WF_vars(BodyReturn \/ BodyThrow \/ CompReturn)

LiveSpec == Init /\ [][NextLive]_vars /\ Fairness

\* ---------------------------------------------------------------- properties
\* steps, as seen from the two states of a transition
Threw == Depth > 0 /\ stack' = << >> /\ IsError(ret')
Returned == Depth > 0 /\ stack' = Pop /\ ret' # NoVal /\ ~IsError(ret')
UserGet(c) == c.op \in {"get", "inject"}
Failure(optional, name) == IF optional THEN Undefined ELSE TokenNotRegistered(name)

\* C1 (as claimed): every get(t) an injector answers from a class or factory
\* recipe for t returns the same instance, as long as t is not provided again
\* on that injector.
SingletonPerOwner ==
  \A i \in 0..MaxInj : \A t \in UserTokens : Cardinality(served[i][t]) <= 1

\* C2 (as claimed): while the body of a scope-bound construction runs, the
\* ambient injector is that scope's own injector, and when the construction
\* returns the ambient pointer is what it was when the scope was entered.
ScopeStackDiscipline ==
  [][ /\ (Depth > 0 /\ Top.k = "comp") => getCurrentInjector = Top.inj
      /\ (Returned /\ Top.k = "comp") => cur' = Top.entry ]_vars

\* C3 (as claimed): when the construction of a scope-bound type fails, the
\* ambient pointer is back at its value at scope entry when the error reaches
\* the caller.
RestoredWhenBodyThrows ==
  [][ (Threw /\ stack[1].k = "comp") => cur' = stack[1].entry ]_vars

\* C4 (as claimed): whenever no call is in progress the ambient pointer is
\* empty.
EmptyAtRest == Depth = 0 => cur = Null

\* C5 (as claimed): when dynamicComponent returns or fails, the ambient pointer
\* is what it was before the call.
DynamicRestores ==
  [][ /\ (Returned /\ Top.k = "dyn") => cur' = Top.entry
      /\ (Threw /\ stack[1].k = "dyn") => cur' = stack[1].entry ]_vars

\* C6 (as claimed): providing a recipe for one token leaves the entry of every
\* other token on that injector alone, and a get never initializes a recipe
\* that was registered for a token other than the one asked for.
TokenIdentity ==
  [][ /\ \A t \in UserTokens :
           (last'.op = "provide" /\ last'.tok # t)
             => providers'[last'.inj][Name(t)] = providers[last'.inj][Name(t)]
      /\ \A k \in 1..Len(stack') :
           (stack'[k].k = "get" /\ stack'[k].pc = "await")
             => stack'[k].prov.provide = stack'[k].tok ]_vars

\* C7 (as claimed): a get with self on an injector without an entry for the
\* token fails (or yields undefined when optional) and changes no registry, and
\* no get that runs under the self option looks beyond its own injector.
SelfExclusion ==
  [][ /\ (UserGet(last') /\ last'.o.self
            /\ providers[last'.inj][Name(last'.tok)] = NoEntry)
          => /\ ret' = Failure(last'.o.optional, Name(last'.tok))
             /\ providers' = providers
      /\ (Depth > 1 /\ Top.k = "get" /\ Top.pc = "start" /\ stack[Depth - 1].self)
          => Find(Top.inj, Name(Top.tok), FALSE, FALSE, FALSE) \in {Top.inj, Null} ]_vars

\* C8: a get with skipSelf on injector I leaves I's registry alone and is
\* answered exactly as get(t, { optional, self: host }) on I's parent is; on a
\* parentless I it fails (or yields undefined when optional) whatever I holds.
SkipSelfStartsAtParent ==
  [][ (UserGet(last') /\ last'.o.skipSelf) =>
        LET c == last' IN
          /\ providers'[c.inj] = providers[c.inj]
          /\ IF parent[c.inj] = Null
               THEN /\ ret' = Failure(c.o.optional, Name(c.tok))
                    /\ providers' = providers
               ELSE GetCall(stack, GetFrame(parent[c.inj], c.tok,
                                            Opts(c.o.optional, c.o.host, FALSE, FALSE))) ]_vars

\* C8 witness: a skipSelf get on an injector that holds an entry under the
\* token's name was answered with a value from above
SkipSelfAnsweredAbove ==
  /\ UserGet(last) /\ last.o.skipSelf
  /\ providers[last.inj][Name(last.tok)] # NoEntry
  /\ ret.t \in {"inst", "const"}

\* C9 (as claimed): a get with host on I fails (or yields undefined) when
\* neither I nor I's parent holds an entry, and nothing it does on the way
\* looks beyond I's parent.
HostBound ==
  [][ /\ (UserGet(last') /\ last'.o.host
            /\ Find(last'.inj, Name(last'.tok), last'.o.skipSelf, last'.o.self, TRUE) = Null)
          => ret' = Failure(last'.o.optional, Name(last'.tok))
      /\ (UserGet(last') /\ last'.o.host /\ Len(stack') = Depth + 2
            /\ stack'[Depth + 2].k = "get")
          => LET f == stack'[Depth + 2]
                 owner == Find(f.inj, Name(f.tok), FALSE, FALSE, FALSE)
             IN owner \in {last'.inj, parent[last'.inj], Null} ]_vars

\* C10 (as claimed): a get with optional never ends in TokenNotRegistered, also
\* when the token that cannot be resolved is the target of a useExisting alias.
OptionalNeverThrows ==
  [][ /\ (UserGet(last') /\ last'.o.optional) => ret'.t # "TokenNotRegistered"
      /\ (Depth > 1 /\ Top.k = "get" /\ Top.pc = "start" /\ stack[Depth - 1].optional)
          => ret'.t # "TokenNotRegistered" ]_vars

\* an injector holds an entry for a token: the entry under the token's name
\* came from a recipe registered for that very token
HoldsEntryFor(i, tok) ==
  providers[i][Name(tok)] # NoEntry /\ providers[i][Name(tok)].tok = tok

\* the nearest injector on the search path the options permit that holds an
\* entry for the token, or Null
RECURSIVE Permitted(_, _, _, _, _)
Permitted(i, tok, skipSelf, self, host) ==
  IF ~skipSelf /\ HoldsEntryFor(i, tok) THEN i
  ELSE IF parent[i] # Null /\ ~self THEN Permitted(parent[i], tok, FALSE, host, FALSE)
  ELSE Null

\* C11 (as claimed): a get without optional fails with TokenNotRegistered for
\* its token exactly when no injector on the search path its options permit
\* holds an entry for that token.
NotRegisteredExactly ==
  [][ (UserGet(last') /\ ~last'.o.optional) =>
        LET c == last' IN
          (ret' = TokenNotRegistered(Name(c.tok)))
            <=> (Permitted(c.inj, c.tok, c.o.skipSelf, c.o.self, c.o.host) = Null) ]_vars

\* the library resolves the target of a useExisting recipe: the activation of
\* get that found the alias waits below the get on the target
AliasStep ==
  /\ Depth > 1
  /\ Top.k = "get" /\ Top.pc = "start"
  /\ stack[Depth - 1].k = "get" /\ stack[Depth - 1].prov.kind = "existing"

\* C12 (as claimed): the get on the target of a useExisting recipe takes the
\* step that get(target, opts) takes with the options opts the get on the alias
\* was called with, and returning from it caches nothing of its own.
AliasTransparency ==
  [][ /\ AliasStep =>
           LET a == stack[Depth - 1] IN
             GetCall(Pop, [Top EXCEPT !.optional = a.optional, !.self = a.self,
                                      !.host = a.host])
      /\ (Returned /\ Top.k = "get" /\ Top.pc = "await" /\ Top.prov.kind = "existing")
           => providers' = providers ]_vars

\* the injectors above i on its parent chain
RECURSIVE Ancestors(_)
Ancestors(i) ==
  IF parent[i] = Null THEN {} ELSE {parent[i]} \cup Ancestors(parent[i])

\* C13 (as claimed): a get with default options is answered from the entry of
\* the nearest injector, from the one asked upward, that holds an entry for the
\* token; and an instance an injector builds from its own class or factory
\* recipe is never the value an ancestor holds for that token.
NearestProviderWins ==
  [][ /\ (UserGet(last') /\ last'.o = NoOpts) =>
           LET c == last'
               n == Permitted(c.inj, c.tok, FALSE, FALSE, FALSE)
           IN n # Null =>
                IF ret' # NoVal
                  THEN /\ providers'[n][Name(c.tok)].tok = c.tok
                       /\ providers'[n][Name(c.tok)].st = "R"
                       /\ ret' = providers'[n][Name(c.tok)].value
                  ELSE /\ stack'[Depth + 1].inj = n
                       /\ stack'[Depth + 1].prov.provide = c.tok
      /\ (Returned /\ Top.k = "get" /\ Top.pc = "await"
             /\ Top.prov.kind \in {"class", "factory"})
           => \A j \in Ancestors(Top.inj) :
                 providers[j][Name(Top.tok)].value # ret' ]_vars

\* injector i belongs to a scope-bound instance whose construction completed
ScopeCompleted(i) == i \in 1..nInj /\ providers[i][Name("COMPONENT")] # NoEntry

\* C14 (as claimed): inject of a token in the body of a scope whose own
\* injector holds an entry for it does not fail with TokenNotRegistered; and an
\* inject (default options) of a token that a completed scope holds, made where
\* neither the ambient injector nor any of its ancestors holds an entry for the
\* token, fails with TokenNotRegistered.
ScopeIsolation ==
  [][ (last'.op = "inject" /\ last'.o = NoOpts) =>
        LET c == last' IN
          /\ (Depth > 0 /\ Top.k = "comp" /\ HoldsEntryFor(Top.inj, c.tok))
               => ret'.t # "TokenNotRegistered"
          /\ ( /\ \E i \in 1..nInj : ScopeCompleted(i) /\ HoldsEntryFor(i, c.tok)
               /\ \A j \in {c.inj} \cup Ancestors(c.inj) : ~HoldsEntryFor(j, c.tok) )
               => ret' = TokenNotRegistered(Name(c.tok)) ]_vars

\* the step enters the constructor of a scope-bound type
EnteredScope ==
  /\ nInj' = nInj + 1
  /\ Len(stack') > 0
  /\ stack'[Len(stack')].k = "comp" /\ stack'[Len(stack')].inj = nInj'

\* the recipe a declared list registers under a name, or NoRecipe
Declared(ps, n) ==
  IF \E k \in DOMAIN ps : Name(ps[k].provide) = n
    THEN ps[CHOOSE k \in DOMAIN ps : Name(ps[k].provide) = n]
    ELSE NoRecipe

ClassBuiltInOwnerContext ==
  [][ /\ (Depth > 0 /\ Top.k = "class" /\ Top.pc = "run")
           => getCurrentInjector = Top.inj
      /\ (Returned /\ Top.k = "class") => cur' = Top.entry ]_vars

\* the value an entry yields when asked: a resolved entry's value, an
\* unresolved value recipe's useValue
Carried(e) == IF e.st = "U" THEN e.provider.val ELSE e.value

\* C17 (as claimed): when the construction of a scope-bound type returns, its
\* injector holds resolved entries for the type's token and for COMPONENT, both
\* equal to the built instance.
SelfRegisteredResolved ==
  [][ (Returned /\ Top.k = "comp") =>
        \A n \in {Name(Top.tok), Name("COMPONENT")} :
           /\ providers'[Top.inj][n].st = "R"
           /\ providers'[Top.inj][n].value = ret' ]_vars

\* C17 (amended): when the construction of a scope-bound type returns, its
\* injector holds unresolved value recipes for the type's token and for
\* COMPONENT that carry the built instance; what these entries carry never
\* changes afterwards, and get(COMPONENT, { self: true }) on that injector
\* returns it.
SelfRegisteredAsValue ==
  [][ /\ (Returned /\ Top.k = "comp") =>
           \A t \in {Top.tok, "COMPONENT"} :
              providers'[Top.inj][Name(t)] = Uninitialized(ValueProvider(t, ret'))
      /\ \A i \in 1..MaxInj : ScopeCompleted(i) =>
           \A n \in {"Component", "S1", "S2"} :
              Carried(providers'[i][n]) = Carried(providers[i][n])
      /\ (UserGet(last') /\ last'.o.self /\ last'.tok = "COMPONENT"
             /\ ScopeCompleted(last'.inj))
           => /\ ret' = Carried(providers[last'.inj]["Component"])
              /\ ret'.t = "inst" ]_vars

\* C17 witness: get(COMPONENT, { self: true }) on the injector of a completed
\* scope returned the instance
MarkerServed ==
  /\ UserGet(last) /\ last.o.self /\ last.tok = "COMPONENT"
  /\ ScopeCompleted(last.inj)
  /\ ret.t = "inst"

\* the step is a call of dynamicComponent without an injector, the one caller
\* of assertRunInInjectionContext
AssertedContext == last'.op = "dynamicComponent" /\ last'.inj = Null

\* C18 (as claimed): assertRunInInjectionContext does not fail once a scope has
\* been entered, even if the scope has been left again (a completed scope-bound
\* construction is a scope that was entered).
AssertFailsOnlyBeforeFirstScope ==
  [][ (AssertedContext /\ ret' = InjectionOutsideContext)
        => ~ \E i \in 1..nInj : ScopeCompleted(i) ]_vars

\* C18 (amended): assertRunInInjectionContext fails exactly when the ambient
\* pointer is empty at the moment of the call, whatever happened before.
AssertFailsWhenPointerEmpty ==
  [][ AssertedContext => ((ret' = InjectionOutsideContext) <=> (cur = Null)) ]_vars

\* C18 witness: the assertion failed after a scope had been entered and left
AssertFailedAfterScope ==
  /\ last.op = "dynamicComponent" /\ last.inj = Null
  /\ ret = InjectionOutsideContext
  /\ \E i \in 1..nInj : ScopeCompleted(i)

\* C19: dynamicComponent without an injector, called while the ambient pointer
\* is empty, fails with InjectionOutsideContext, constructs nothing and changes
\* neither the pointer nor any injector; called while the pointer holds an
\* injector, it asks that injector for Injector and constructs on the injector
\* the pointer held at the call.
DynamicUsesAmbient ==
  [][ /\ (AssertedContext /\ cur = Null) =>
           /\ ret' = InjectionOutsideContext
           /\ stack' = << >>
           /\ UNCHANGED << cur, providers, parent, nInj, nInst >>
      /\ (AssertedContext /\ cur # Null) =>
           /\ Len(stack') = Depth + 2
           /\ stack'[Depth + 2] = GetFrame(cur, "Injector", NoOpts)
           /\ UNCHANGED << cur, providers, parent, nInj, nInst >>
      /\ (Depth > 0 /\ Top.k = "dyn" /\ Top.pc = "inject" /\ ~IsError(ret')) =>
           /\ Top.entry # Null
           /\ stack'[Depth].inj = Top.entry
           /\ IF Top.tok \in CompTypes
                THEN parent'[cur'] = Top.entry /\ cur' = nInj'
                ELSE cur' = Top.entry ]_vars

\* C19 witness: inside a scope, inject(Injector) has handed dynamicComponent
\* the injector the ambient pointer holds
AmbientInjectorObtained ==
  /\ Depth > 0 /\ Top.k = "dyn" /\ Top.pc = "inject"
  /\ cur # Null /\ ret = InjRef(cur)

\* C20: every injector's Injector entry carries the injector itself, whatever
\* list it was constructed with and whatever gets have run; get(Injector) on I
\* returns I, and get(Injector, { skipSelf: true }) returns I's parent (on a
\* parentless I it fails, or yields undefined when optional).
InjectorSelfRegistered ==
  [][ /\ \A i \in 0..nInj' : Carried(providers'[i]["Injector"]) = InjRef(i)
      /\ (UserGet(last') /\ last'.tok = "Injector") =>
           LET c == last' IN
             IF ~c.o.skipSelf THEN ret' = InjRef(c.inj)
             ELSE IF parent[c.inj] # Null THEN ret' = InjRef(parent[c.inj])
             ELSE ret' = Failure(c.o.optional, "Injector") ]_vars

\* C20 witness: get(Injector, { skipSelf: true }) on an injector other than
\* ROOT_INJECTOR returned its parent, after get(Injector) had resolved the
\* injector's own entry
ParentInjectorServed ==
  /\ UserGet(last) /\ last.tok = "Injector" /\ last.o.skipSelf
  /\ last.inj # ROOT /\ parent[last.inj] # Null
  /\ ret = InjRef(parent[last.inj])
  /\ providers[last.inj]["Injector"] = Initialized(InjRef(last.inj), "Injector")

\* C21: dynamicComponent registers nothing on the injector J it constructs
\* against: neither the call, nor the step that takes the ambient injector,
\* nor the return changes J's registry, and when it returns no entry of J
\* carries the instance it built.  Its inject(Injector) touches no entry of J
\* but J's own Injector entry, which it may resolve.
DynamicRegistersNothing ==
  [][ /\ (last'.op = "dynamicComponent" /\ last'.inj # Null)
           => providers'[last'.inj] = providers[last'.inj]
      /\ (Depth > 1 /\ Top.k = "get" /\ Top.pc = "start" /\ stack[Depth - 1].k = "dyn")
           => \A n \in Names \ {"Injector"} :
                 providers'[Top.inj][n] = providers[Top.inj][n]
      /\ (Depth > 0 /\ Top.k = "dyn" /\ Top.pc = "inject" /\ ret.t = "inj")
           => providers'[ret.id] = providers[ret.id]
      /\ (Returned /\ Top.k = "dyn")
           => /\ providers' = providers
              /\ \A n \in Names : Carried(providers'[Top.inj][n]) # ret' ]_vars

\* C21 witness: dynamicComponent has built a scope-bound instance on J and is
\* about to return it; the instance is registered on the scope's own injector
DynamicScopeBuilt ==
  /\ Depth > 0 /\ Top.k = "dyn" /\ Top.pc = "await"
  /\ ret.t = "inst"
  /\ \E i \in 1..nInj :
        parent[i] = Top.inj /\ Carried(providers[i]["Component"]) = ret

\* C22 (as claimed): after provide(recipe) for token t on injector I, I's entry
\* for t is the unresolved recipe whatever it was before, the entries I holds
\* for other tokens and the registries of other injectors are unchanged, and a
\* get(t) that finds the unresolved entry on I resolves that recipe.
ProvideOverwrites ==
  [][ /\ last'.op = "provide" =>
           LET i == last'.inj
               t == last'.tok
           IN /\ providers'[i][Name(t)].st = "U"
              /\ providers'[i][Name(t)].provider.provide = t
              /\ \A u \in Tokens \ {t} :
                    HoldsEntryFor(i, u) => providers'[i][Name(u)] = providers[i][Name(u)]
              /\ \A j \in (0..MaxInj) \ {i} : providers'[j] = providers[j]
      /\ (UserGet(last') /\ ~last'.o.skipSelf
            /\ providers[last'.inj][Name(last'.tok)].st = "U"
            /\ providers[last'.inj][Name(last'.tok)].tok = last'.tok) =>
           LET c == last'
               p == providers[c.inj][Name(c.tok)].provider
           IN IF p.kind = "value"
                THEN ret' = p.val
                ELSE /\ Len(stack') > Depth
                     /\ stack'[Depth + 1].prov = p
                     /\ stack'[Depth + 1].inj = c.inj ]_vars

\* the registry of ROOT_INJECTOR after the step is what provide(p) makes of it,
\* and nothing else of any registry changed
RootProvided(p) ==
  /\ providers'[ROOT][Name(p.provide)] = Uninitialized(p)
  /\ \A n \in Names \ {Name(p.provide)} : providers'[ROOT][n] = providers[ROOT][n]
  /\ \A j \in 1..MaxInj : providers'[j] = providers[j]

\* C23: constructing an InjectionToken with providedIn 'root' leaves, within
\* the constructor call, an unresolved factory recipe for that token (its
\* factory and dependency list) on ROOT_INJECTOR, whatever the root held under
\* that name; constructing one without options changes no registry.
TokenAutoRegisters ==
  [][ last'.op = "new InjectionToken" =>
        /\ stack' = stack
        /\ IF last'.props.providedIn = "root"
             THEN RootProvided(FactoryProvider(last'.tok, last'.props.deps))
             ELSE providers' = providers ]_vars

\* C23 witness: a token constructed with providedIn 'root' and a dependency
\* list is registered on ROOT_INJECTOR with its factory recipe
TokenRegisteredAtRoot ==
  /\ last.op = "new InjectionToken" /\ last.props = RootFactoryProps(1)
  /\ providers[ROOT][Name(last.tok)] = Uninitialized(FactoryProvider(last.tok, 1))

\* C24: @Injectable with providedIn 'root' provides on ROOT_INJECTOR, when the
\* decorator is applied, the class recipe of the type, or the factory recipe
\* (factory and deps) when a factory is given; without providedIn it changes no
\* registry.
InjectableRegisters ==
  [][ last'.op = "Injectable" =>
        /\ stack' = stack
        /\ IF last'.props.providedIn # "root" THEN providers' = providers
           ELSE IF last'.props.useFactory
             THEN RootProvided(FactoryProvider(last'.tok, last'.props.deps))
             ELSE RootProvided(ClassProvider(last'.tok, last'.tok)) ]_vars

\* C24 witness: a class decorated with providedIn 'root' and a factory is
\* registered on ROOT_INJECTOR with the factory recipe
InjectableFactoryAtRoot ==
  /\ last.op = "Injectable" /\ last.props = RootFactoryProps(1)
  /\ providers[ROOT][Name(last.tok)] = Uninitialized(FactoryProvider(last.tok, 1))

\* C25 (as claimed): Application.init leaves every passed provider registered
\* on ROOT_INJECTOR when the construction of the root type begins and begins
\* that construction once; and while a scope-bound construction is running,
\* inject (default options) of a token ROOT_INJECTOR holds an entry for does
\* not fail and is answered from a recipe registered for that token.
InitRegistersBeforeRoot ==
  [][ /\ last'.op = "Application.init" =>
           /\ \A k \in DOMAIN last'.list :
                 providers'[ROOT][Name(last'.list[k].provide)] = Uninitialized(last'.list[k])
           /\ nInj' = nInj + 1
           /\ stack' = Append(stack, stack'[Len(stack')])
           /\ stack'[Len(stack')].k = "comp" /\ stack'[Len(stack')].tok = last'.tok
      /\ (last'.op = "inject" /\ last'.o = NoOpts
            /\ Depth > 0 /\ stack[1].k = "comp" /\ HoldsEntryFor(ROOT, last'.tok)) =>
           /\ ret'.t # "TokenNotRegistered"
           /\ IF ret' # NoVal
                THEN \E i \in 0..nInj :
                        /\ providers'[i][Name(last'.tok)].tok = last'.tok
                        /\ providers'[i][Name(last'.tok)].value = ret'
                ELSE stack'[Depth + 1].prov.provide = last'.tok ]_vars

\* C26 (as claimed): a get (default options) of a token that ROOT_INJECTOR
\* holds an entry for, made on any injector while no other injector holds an
\* entry under that name, does not fail and is answered from the entry of
\* ROOT_INJECTOR; also on an injector constructed without a parent.
RootReachableEverywhere ==
  [][ (UserGet(last') /\ last'.o = NoOpts
         /\ HoldsEntryFor(ROOT, last'.tok)
         /\ \A j \in 1..MaxInj : providers[j][Name(last'.tok)] = NoEntry) =>
        /\ ret'.t # "TokenNotRegistered"
        /\ IF ret' # NoVal
             THEN ret' = Carried(providers'[ROOT][Name(last'.tok)])
             ELSE stack'[Depth + 1].inj = ROOT ]_vars

OnlyOwnerTouched(f) ==
  LET name  == Name(f.tok)
      owner == Find(f.inj, name, f.skipSelf, f.self, f.host)
  IN /\ \A j \in 0..nInj : \A n \in Names :
          (j # owner \/ n # name) => providers'[j][n] = providers[j][n]
     /\ (owner # Null /\ ret' # NoVal /\ ~IsError(ret'))
          => /\ providers'[owner][name].st = "R"
             /\ providers'[owner][name].value = ret'

\* C29: a get writes its result in the registry of the injector that answers
\* and nowhere else: the step that begins a get and the step that stores the
\* result of a recipe leave every other entry of every existing injector as it
\* was, so a get that an ancestor answers creates no entry on the injector it
\* was called on nor on any injector between.
OwnerOnlyCaching ==
  [][ /\ UserGet(last') =>
           OnlyOwnerTouched(GetFrame(last'.inj, last'.tok, last'.o))
      /\ (Depth > 0 /\ Top.k = "get" /\ Top.pc = "start") => OnlyOwnerTouched(Top)
      /\ (Returned /\ Top.k = "get" /\ Top.pc = "await") =>
           /\ \A j \in 0..MaxInj : \A n \in Names :
                 (j # Top.inj \/ n # Name(Top.tok)) => providers'[j][n] = providers[j][n]
           /\ providers'[Top.inj][Name(Top.tok)].value = ret' ]_vars

\* C29 witness: a get on an injector two levels below ROOT_INJECTOR was
\* answered by the root, which now holds the resolved entry; the injector
\* asked and the one between hold no entry under the name
AncestorCached ==
  /\ UserGet(last) /\ last.inj = 2 /\ parent[2] = 1 /\ parent[1] = ROOT
  /\ providers[2][Name(last.tok)] = NoEntry
  /\ providers[1][Name(last.tok)] = NoEntry
  /\ providers[ROOT][Name(last.tok)] = Initialized(ret, last.tok)
  /\ ret.t = "const"

\* the step begins the run of a factory function
EnteredFactory ==
  /\ nInj' = nInj + 1
  /\ Len(stack') > 1
  /\ stack'[Len(stack')].k = "factory" /\ stack'[Len(stack')].inj = nInj'

\* C30 (as claimed): the factory of a factory recipe starts in a new injector
\* whose parent is the ambient injector at the moment the resolution began and
\* whose entries are the recipe's declared deps, unresolved, besides its own
\* Injector entry; while the factory function runs the ambient injector is
\* that child; and when the factory has returned, the ambient pointer is what
\* it was when the resolution began.
FactoryScoping ==
  [][ /\ EnteredFactory =>
           LET f == stack'[Len(stack')]
               i == f.inj
               deps == DepsList(stack'[Len(stack') - 1].prov.deps)
           IN /\ i \notin Injectors
              /\ parent'[i] = getCurrentInjector
              /\ cur' = i
              /\ \A n \in Names :
                    providers'[i][n] =
                      IF n = "Injector"
                        THEN Uninitialized(ValueProvider("Injector", InjRef(i)))
                      ELSE IF Declared(deps, n) # NoRecipe
                        THEN Uninitialized(Declared(deps, n))
                      ELSE NoEntry
      /\ (Depth > 0 /\ Top.k = "factory" /\ Top.pc = "run")
           => getCurrentInjector = Top.inj
      /\ (Returned /\ Top.k = "get" /\ Top.pc = "await" /\ Top.prov.kind = "factory")
           => cur' = Top.entry ]_vars

\* C31 (as claimed): when a get that runs a class or factory recipe fails
\* because the constructor or factory throws, directly or from a construction
\* nested in it, the ambient pointer is what it was before the get when the
\* error reaches the caller.
RestoredWhenRecipeThrows ==
  [][ (Threw /\ stack[1].k = "get" /\ stack[1].pc = "await"
         /\ stack[1].prov.kind \in {"class", "factory"})
        => cur' = stack[1].entry ]_vars

\* the tokens a dependency list registers
DepTokens(d) == { DepsList(d)[k].provide : k \in DOMAIN DepsList(d) }

\* C32 (as claimed): entering a factory adds no entry to a registry that
\* exists already, and when the factory function returns, a token that only
\* the factory's own injector (or a scope created under it) holds an entry for
\* cannot be resolved from the injector that holds the factory recipe, from an
\* injector the request may have come from, or from the ambient injector that
\* is restored.
DepsOnlyWhileFactoryRuns ==
  [][ /\ EnteredFactory => \A j \in Injectors : providers'[j] = providers[j]
      /\ (Returned /\ Top.k = "factory") =>
           LET child == Top.inj
               await == stack[Depth - 1]
               under == {child} \cup {j \in Injectors : child \in Ancestors(j)}
               from  == {await.inj, await.par}
                          \cup {j \in Injectors \ under : await.inj \in Ancestors(j)}
           IN \A t \in DepTokens(await.prov.deps) :
                 (\A j \in Injectors \ under : ~HoldsEntryFor(j, t))
                   => \A x \in from : Find(x, Name(t), FALSE, FALSE, FALSE) = Null ]_vars

\* C33: the ambient pointer never holds a reference to ROOT_INJECTOR; when a
\* scope-bound construction that was entered with an empty pointer completes,
\* the pointer is empty again, and assertRunInInjectionContext called with the
\* pointer empty fails with InjectionOutsideContext.
PointerClearedForRoot ==
  [][ /\ cur' # ROOT
      /\ (Returned /\ Top.k = "comp" /\ Top.entry = Null) => cur' = Null
      /\ (AssertedContext /\ cur = Null) => ret' = InjectionOutsideContext ]_vars

\* C33 witness: a scope entered from the empty pointer has completed, the
\* pointer is empty and the assertion made after it failed
EmptyAgainAfterRootScope ==
  /\ cur = Null
  /\ \E i \in 1..nInj : ScopeCompleted(i) /\ parent[i] = ROOT
  /\ last.op = "dynamicComponent" /\ last.inj = Null
  /\ ret = InjectionOutsideContext

\* C34 (as claimed): when the get on a useExisting recipe returns, no registry
\* differs from what the get on the target left, and the injector that holds
\* the alias still holds it as the unresolved useExisting recipe.
AliasStaysUnresolved ==
  [][ (Returned /\ Top.k = "get" /\ Top.pc = "await" /\ Top.prov.kind = "existing")
        => /\ providers'[Top.inj][Name(Top.tok)] = Uninitialized(Top.prov)
           /\ \A j \in Injectors, n \in Names :
                 (j # Top.inj \/ n # Name(Top.tok)) => providers'[j][n] = providers[j][n]
     ]_vars

\* some get is waiting for a class constructor or a factory function
RecipeRunning ==
  \E k \in 1..Depth : /\ stack[k].k = "get" /\ stack[k].pc = "await"
                       /\ stack[k].prov.kind \in {"class", "factory"}

GetBegins == UserGet(last') \/ (Depth > 0 /\ Top.k = "get" /\ Top.pc = "start")

UnregisteredDuringBody ==
  [][ /\ \A k \in 1..Depth : (stack[k].k = "comp" /\ stack[k].pc = "run") =>
            /\ providers[stack[k].inj][Name(stack[k].tok)] = NoEntry
            /\ providers[stack[k].inj][Name("COMPONENT")] = NoEntry
      /\ (Depth > 0 /\ Top.k = "comp" /\ last'.op = "inject" /\ last'.o.self
             /\ last'.tok \in {Top.tok, "COMPONENT"})
           => ret' = Failure(last'.o.optional, Name(last'.tok)) ]_vars

\* C38: the get on the target of a useExisting recipe begins at the injector
\* that holds the alias recipe: the entry that answers it, and the recipe it
\* runs, belong to that injector or to one of its ancestors, and no registry
\* of any other injector is touched, whichever descendant asked for the alias.
AliasResolvedAtHolder ==
  [][ AliasStep =>
        LET a  == stack[Depth - 1].inj
            up == {a} \cup Ancestors(a)
        IN /\ Top.inj = a
           /\ ret' = NoVal => stack'[Depth].inj \in up
           /\ (ret' # NoVal /\ ~IsError(ret')) =>
                 \E j \in up : /\ providers'[j][Name(Top.tok)].st = "R"
                                /\ providers'[j][Name(Top.tok)].value = ret'
           /\ \A j \in Injectors \ up : providers'[j] = providers[j] ]_vars

\* C38 witness: inject of an alias from a scope whose own injector holds a
\* recipe for the target was delegated to the parent that holds the alias, and
\* the get on the target is about to begin there
AliasDelegatedPastLocalTarget ==
  /\ last.op = "inject" /\ last.inj \in 1..nInj
  /\ Depth > 1 /\ Top.k = "get" /\ Top.pc = "start"
  /\ stack[Depth - 1].k = "get" /\ stack[Depth - 1].prov.kind = "existing"
  /\ stack[Depth - 1].inj = parent[last.inj]
  /\ Top.inj = parent[last.inj]
  /\ HoldsEntryFor(last.inj, Top.tok)

\* C39 (as claimed): an inject called by the constructor or factory function
\* of a recipe held by injector I is answered by an entry of I, of an ancestor
\* of I or, for a factory, of the injector holding its deps; never by an entry
\* of a descendant of I, so the value cached at I is the same whichever
\* descendant asked first.
CachedValueIndependentOfRequester ==
  [][ (/\ Depth > 1 /\ Top.k \in {"class", "factory"}
       /\ stack[Depth - 1].k = "get" /\ stack[Depth - 1].pc = "await"
       /\ last'.op = "inject" /\ last'.tok \in UserTokens)
        => LET I == stack[Depth - 1].inj
               c == last'
               n == Find(c.inj, Name(c.tok), c.o.skipSelf, c.o.self, c.o.host)
           IN n # Null =>
                n \in ({I} \cup Ancestors(I)
                         \cup (IF Top.k = "factory" THEN {Top.inj} ELSE {})) ]_vars

TypeOK ==
  /\ nInj \in 0..MaxInj
  /\ nInst \in 0..MaxInst
  /\ cur \in {Null} \cup (1..nInj)
  /\ Depth <= MaxDepth
====
